---- MODULE Spec2Model ----
(***************************************************************************)
(* A model of todotxt.py: the recurrence engine (process_recurring_text    *)
(* and _add_recurrence), the past-due finder (find_past_due) and the CLI   *)
(* entry point (main).                                                     *)
(*                                                                         *)
(* Text is a sequence of symbols.  A symbol is one character, or a run of  *)
(* characters that the regular expressions of the program can only match   *)
(* or skip as a whole:                                                     *)
(*   Lit(" "), Lit("NL")            the space and the newline              *)
(*   Lit("x"), Lit("a"), Lit("b"), Lit("@"), Lit("+")   single characters  *)
(*   Lit("d"), Lit("w"), Lit("m"), Lit("y")   the unit letters             *)
(*   Lit("rec:"), Lit("done:"), Lit("due:"), Lit("_prev:")   the keys      *)
(*   Digit(n)                       one decimal digit                      *)
(*   DateSym(y, m, d)               the ten characters YYYY-MM-DD          *)
(*   HexSym(h1, h2)                 eight hexadecimal characters           *)
(***************************************************************************)
EXTENDS Integers, Sequences, FiniteSets, TLC

VARIABLES
    input,      \* process_recurring_text: the text handed to the first run
    outs,       \* process_recurring_text: the outcome of each run so far
    date_str,   \* _add_recurrence: argument date_str
    rec,        \* _add_recurrence: argument rec
    new_due,    \* _add_recurrence: the outcome (err "unset" before the call)
    dtext,      \* find_past_due: argument text
    today,      \* find_past_due: argument today
    past_due,   \* find_past_due: [done, lines], the returned list once done
    pc,         \* main: where the command stands
    args,       \* main: the parsed command line
    fs,         \* main: the files, path -> content
    fs0,        \* main: the files as they were when the command started
    main_text,  \* main: the local variable text
    main_files, \* main: the local variable files of the due command
    stdout,     \* main: what was written to standard output
    reads       \* main: the paths opened for reading, in order

recVars == <<input, outs>>
addVars == <<date_str, rec, new_due>>
dueVars == <<dtext, today, past_due>>
mainVars == <<pc, args, fs, fs0, main_text, main_files, stdout, reads>>
vars == <<recVars, addVars, dueVars, mainVars>>

\* ------------------------------------------------------------------ symbols

Lit(s) == [k |-> s, a |-> 0, b |-> 0, c |-> 0]
Digit(n) == [k |-> "digit", a |-> n, b |-> 0, c |-> 0]
DateSym(y, m, d) == [k |-> "date", a |-> y, b |-> m, c |-> d]
HexSym(h1, h2) == [k |-> "hex8", a |-> h1, b |-> h2, c |-> 0]

SP == Lit(" ")
NL == Lit("NL")

\* \S of the regular expressions: any character but white space.
NonSpace(s) == s.k \notin {" ", "NL"}

\* The longest run of \S symbols of seq that starts at position i.
RECURSIVE RunEnd(_, _)
RunEnd(seq, i) ==
    IF i <= Len(seq) /\ NonSpace(seq[i]) THEN RunEnd(seq, i + 1) ELSE i

Range(seq) == {seq[i] : i \in 1..Len(seq)}

\* seq[i..j-1]
Slice(seq, i, j) == [n \in 1..(j - i) |-> seq[i + n - 1]]

\* ----------------------------------------------------------------- calendar

IsLeap(y) == (y % 4 = 0 /\ y % 100 # 0) \/ y % 400 = 0

\* calendar.monthrange(year, month)[1]
monthrange(y, m) ==
    IF m = 2 THEN (IF IsLeap(y) THEN 29 ELSE 28)
    ELSE IF m \in {4, 6, 9, 11} THEN 30 ELSE 31

ValidDate(y, m, d) == y >= 1 /\ m \in 1..12 /\ d \in 1..monthrange(y, m)

\* datetime.strptime(date_str, "%Y-%m-%d"): the date, or ValueError.
strptime(s) ==
    IF Len(s) = 1 /\ s[1].k = "date" /\ ValidDate(s[1].a, s[1].b, s[1].c)
    THEN [ok |-> TRUE, y |-> s[1].a, m |-> s[1].b, d |-> s[1].c]
    ELSE [ok |-> FALSE, y |-> 0, m |-> 0, d |-> 0]

\* date.strftime("%Y-%m-%d")
strftime(dt) == <<DateSym(dt.y, dt.m, dt.d)>>

\* The days before 1 January of year y and before the first of month m of
\* year y, as datetime counts them (proleptic Gregorian ordinals).
DaysBeforeYear(y) ==
    (y - 1) * 365 + ((y - 1) \div 4) - ((y - 1) \div 100) + ((y - 1) \div 400)

RECURSIVE DaysBeforeMonth(_, _)
DaysBeforeMonth(y, m) ==
    IF m = 1 THEN 0 ELSE DaysBeforeMonth(y, m - 1) + monthrange(y, m - 1)

\* date.toordinal()
toordinal(dt) == DaysBeforeYear(dt.y) + DaysBeforeMonth(dt.y, dt.m) + dt.d

\* date.fromordinal(n)
fromordinal(n) ==
    LET y == CHOOSE yy \in (n \div 366)..((n \div 365) + 1) :
                 DaysBeforeYear(yy) < n /\ n <= DaysBeforeYear(yy + 1)
        r == n - DaysBeforeYear(y)
        m == CHOOSE mm \in 1..12 :
                 /\ DaysBeforeMonth(y, mm) < r
                 /\ r <= DaysBeforeMonth(y, mm) + monthrange(y, mm)
    IN  [ok |-> TRUE, y |-> y, m |-> m, d |-> r - DaysBeforeMonth(y, m)]

\* date + timedelta(days=n)
timedelta(dt, n) == fromordinal(toordinal(dt) + n)

\* rec.lstrip("+")
RECURSIVE lstrip_plus(_)
lstrip_plus(r) ==
    IF Len(r) > 0 /\ r[1].k = "+" THEN lstrip_plus(Tail(r)) ELSE r

\* int(digits): the value of a run of decimal digits.
RECURSIVE int(_)
int(ds) ==
    IF Len(ds) = 0 THEN 0
    ELSE 10 * int(SubSeq(ds, 1, Len(ds) - 1)) + ds[Len(ds)].a

\* The month branch with a plain date.replace(): the day is not clamped.
AddMonths_no_clamp(dt, amount) ==
    LET total == dt.m - 1 + amount
    IN  [dt EXCEPT !.y = dt.y + (total \div 12), !.m = (total % 12) + 1]

\* The month branch of _add_recurrence.
AddMonths(dt, amount) ==
    LET total == dt.m - 1 + amount
        year == dt.y + (total \div 12)
        month == (total % 12) + 1
        day == IF dt.d < monthrange(year, month) THEN dt.d
               ELSE monthrange(year, month)
    IN  [dt EXCEPT !.y = year, !.m = month, !.d = day]

\* The year branch of _add_recurrence.
AddYears(dt, amount) ==
    LET year == dt.y + amount
        day == IF dt.d < monthrange(year, dt.m) THEN dt.d
               ELSE monthrange(year, dt.m)
    IN  [dt EXCEPT !.y = year, !.d = day]

\* _add_recurrence(date_str, rec): <<>> stands for None; the outcome is
\* [err |-> "" or "ValueError", val |-> the new date string or <<>>].
_add_recurrence(ds, r) ==
    IF Len(ds) = 0 THEN [err |-> "", val |-> <<>>]
    ELSE LET date == strptime(ds)
             rec_value == lstrip_plus(r)
             amount == int(SubSeq(rec_value, 1, Len(rec_value) - 1))
             unit == rec_value[Len(rec_value)].k
         IN  IF ~date.ok THEN [err |-> "ValueError", val |-> <<>>]
             ELSE [err |-> "",
                   val |-> strftime(
                       CASE unit = "d" -> timedelta(date, amount)
                         [] unit = "w" -> timedelta(date, 7 * amount)
                         [] unit = "m" -> AddMonths(date, amount)
                         [] unit = "y" -> AddYears(date, amount)
                         [] OTHER -> date)]

\* ------------------------------------------------------ regular expressions

\* str.split("\n") as re.MULTILINE sees it: the lines between the newlines.
RECURSIVE SplitLines(_, _, _)
SplitLines(text, i, cur) ==
    IF i > Len(text) THEN <<cur>>
    ELSE IF text[i] = NL THEN <<cur>> \o SplitLines(text, i + 1, <<>>)
    ELSE SplitLines(text, i + 1, Append(cur, text[i]))

\* The first position >= i where key:\S+ matches in seq, or 0.
RECURSIVE SearchKey(_, _, _)
SearchKey(seq, key, i) ==
    IF i >= Len(seq) THEN 0
    ELSE IF seq[i].k = key /\ NonSpace(seq[i + 1]) THEN i
    ELSE SearchKey(seq, key, i + 1)

\* Group 1 of key:(\S+) for a match at position i.
Group1(seq, i) == Slice(seq, i + 1, RunEnd(seq, i + 1))

\* re.findall(r"_prev:(\S+)", text): the captured values, as a set.
RECURSIVE findall_prev(_, _)
findall_prev(text, i) ==
    LET at == SearchKey(text, "_prev:", i)
    IN  IF at = 0 THEN {}
        ELSE {Group1(text, at)} \cup findall_prev(text, RunEnd(text, at + 1))

\* The end of the digit run of seq that starts at position i.
RECURSIVE DigitsEnd(_, _)
DigitsEnd(seq, i) ==
    IF i <= Len(seq) /\ seq[i].k = "digit" THEN DigitsEnd(seq, i + 1) ELSE i

Units == {"d", "w", "m", "y"}

\* re.search(r"rec:(\+?\d+[dwmy])", line), from position i on: group 1 of
\* the first match, or <<>> when there is none.
RECURSIVE search_rec(_, _)
search_rec(line, i) ==
    IF i > Len(line) THEN <<>>
    ELSE LET j == IF i + 1 <= Len(line) /\ line[i + 1].k = "+"
                  THEN i + 2 ELSE i + 1
             e == DigitsEnd(line, j)
         IN  IF /\ line[i].k = "rec:"
                /\ e > j
                /\ e <= Len(line)
                /\ line[e].k \in Units
             THEN Slice(line, i + 1, e + 1)
             ELSE search_rec(line, i + 1)

\* re.sub(key + r"\S+", "", line): every match removed, left to right.
RECURSIVE sub_key(_, _, _)
sub_key(line, key, i) ==
    LET at == SearchKey(line, key, i)
    IN  IF at = 0 THEN Slice(line, i, Len(line) + 1)
        ELSE Slice(line, i, at) \o sub_key(line, key, RunEnd(line, at + 1))

\* str.strip()
RECURSIVE lstrip(_)
lstrip(s) == IF Len(s) > 0 /\ ~NonSpace(s[1]) THEN lstrip(Tail(s)) ELSE s

RECURSIVE rstrip(_)
rstrip(s) ==
    IF Len(s) > 0 /\ ~NonSpace(s[Len(s)])
    THEN rstrip(SubSeq(s, 1, Len(s) - 1)) ELSE s

strip(s) == rstrip(lstrip(s))

\* -------------------------------------------------------------- fingerprint

HashMod == 65521

\* The bytes of one symbol, as small integers.
SymCodes(s) ==
    CASE s.k = "digit" -> <<48 + s.a>>
      [] s.k = "date" -> <<s.a \div 100, s.a % 100, 45, s.b, 45, s.c>>
      [] s.k = "hex8" -> <<s.a \div 256, s.a % 256, s.b \div 256, s.b % 256>>
      [] s.k = " " -> <<32>>
      [] s.k = "NL" -> <<10>>
      [] s.k = "+" -> <<43>>
      [] s.k = "@" -> <<64>>
      [] s.k = "a" -> <<97>>
      [] s.k = "b" -> <<98>>
      [] s.k = "d" -> <<100>>
      [] s.k = "m" -> <<109>>
      [] s.k = "w" -> <<119>>
      [] s.k = "x" -> <<120>>
      [] s.k = "y" -> <<121>>
      [] s.k = "rec:" -> <<114, 101, 99, 58>>
      [] s.k = "done:" -> <<100, 111, 110, 101, 58>>
      [] s.k = "due:" -> <<100, 117, 101, 58>>
      [] s.k = "_prev:" -> <<95, 112, 114, 101, 118, 58>>
      [] OTHER -> <<63>>

\* line.encode()
RECURSIVE encode(_)
encode(line) ==
    IF Len(line) = 0 THEN <<>> ELSE SymCodes(line[1]) \o encode(Tail(line))

RECURSIVE Digest(_, _, _)
Digest(bytes, mult, h) ==
    IF Len(bytes) = 0 THEN h
    ELSE Digest(Tail(bytes), mult, (h * mult + bytes[1]) % HashMod)

\* hashlib.sha1(line.encode()).hexdigest()[:8]: eight hexadecimal characters
\* that depend on every byte of the line and on nothing else.  SHA-1 itself
\* is replaced by a pair of polynomial digests of 16 bits each.
task_hash(line) ==
    LET bytes == encode(line)
    IN  <<HexSym(Digest(bytes, 31, 7), Digest(bytes, 257, 11))>>

\* ------------------------------------------------- process_recurring_text

\* "\n".join(lines)
RECURSIVE join_nl(_)
join_nl(lines) ==
    IF Len(lines) = 0 THEN <<>>
    ELSE IF Len(lines) = 1 THEN lines[1]
    ELSE lines[1] \o <<NL>> \o join_nl(Tail(lines))

\* A match of ^x (.+)$ on one line of the text.
IsCompleted(ln) == Len(ln) >= 3 /\ ln[1].k = "x" /\ ln[2] = SP

\* base_date with the anchor taken from due: whenever the line has one.
base_date_due_first(line, r) ==
    LET due_match == SearchKey(line, "due:", 1)
    IN  IF due_match # 0 THEN Group1(line, due_match)
        ELSE IF r[1].k = "+" THEN Group1(line, SearchKey(line, "done:", 1))
        ELSE <<>>

\* The anchor of the new due date: done: when the interval is flexible, the
\* line's due: (or None) when it is strict.
base_date(line, r) ==
    IF r[1].k = "+" THEN Group1(line, SearchKey(line, "done:", 1))
    ELSE LET due_match == SearchKey(line, "due:", 1)
         IN  IF due_match = 0 THEN <<>> ELSE Group1(line, due_match)

\* The new task built from a completed line: done:/due: removed, _prev and
\* the new due date added.
new_line(line, due) ==
    LET l1 == strip(sub_key(line, "done:", 1))
        l2 == strip(sub_key(l1, "due:", 1))
        l3 == l2 \o <<SP, Lit("_prev:")>> \o task_hash(line)
    IN  IF Len(due) > 0 THEN l3 \o <<SP, Lit("due:")>> \o due ELSE l3

\* loop_body with a line that lacks done: skipped instead of raising.
loop_body_skips_missing_done(line, existing_prev) ==
    LET r == search_rec(line, 1)
        skip == [act |-> "continue", err |-> "", task |-> <<>>]
    IN  IF Len(r) = 0 \/ SearchKey(line, "done:", 1) = 0 THEN skip
        ELSE IF task_hash(line) \in existing_prev THEN skip
        ELSE LET due == _add_recurrence(base_date(line, r), r)
             IN  IF due.err # ""
                 THEN [act |-> "raise", err |-> due.err, task |-> <<>>]
                 ELSE [act |-> "append", err |-> "",
                       task |-> new_line(line, due.val)]

\* One turn of the loop over the completed lines: what the body does with the
\* line (group 1 of the match), given the _prev hashes found in the text.
\*   [act |-> "continue"]   [act |-> "raise", err |-> ...]
\*   [act |-> "append", task |-> the new line]
loop_body(line, existing_prev) ==
    LET r == search_rec(line, 1)
        skip == [act |-> "continue", err |-> "", task |-> <<>>]
    IN  IF Len(r) = 0 THEN skip
        ELSE IF SearchKey(line, "done:", 1) = 0
        THEN [act |-> "raise", err |-> "TodotxtError", task |-> <<>>]
        ELSE IF task_hash(line) \in existing_prev THEN skip
        ELSE LET due == _add_recurrence(base_date(line, r), r)
             IN  IF due.err # ""
                 THEN [act |-> "raise", err |-> due.err, task |-> <<>>]
                 ELSE [act |-> "append", err |-> "",
                       task |-> new_line(line, due.val)]

\* The end of the record that starts at line i: the position after its last
\* indented line.
RECURSIVE RecordEnd(_, _)
RecordEnd(lines, i) ==
    IF i + 1 <= Len(lines) /\ Len(lines[i + 1]) > 0 /\ lines[i + 1][1] = SP
    THEN RecordEnd(lines, i + 1) ELSE i + 1

\* loop with the whole record, the completed line and its indented
\* description lines, handed to the loop body in place of the line.
RECURSIVE loop_whole_record(_, _, _, _)
loop_whole_record(lines, i, existing_prev, new_tasks) ==
    IF i > Len(lines) THEN [err |-> "", new_tasks |-> new_tasks]
    ELSE IF ~IsCompleted(lines[i])
    THEN loop_whole_record(lines, i + 1, existing_prev, new_tasks)
    ELSE LET record == join_nl(SubSeq(lines, i, RecordEnd(lines, i) - 1))
             step == loop_body(Slice(record, 3, Len(record) + 1),
                               existing_prev)
         IN  IF step.act = "raise"
             THEN [err |-> step.err, new_tasks |-> <<>>]
             ELSE IF step.act = "append"
             THEN loop_whole_record(lines, i + 1, existing_prev,
                                    Append(new_tasks, step.task))
             ELSE loop_whole_record(lines, i + 1, existing_prev, new_tasks)

\* The loop over re.finditer(r"^x (.+)$", text, re.MULTILINE): the new tasks
\* in source order, or the exception that ended the loop.
RECURSIVE loop(_, _, _, _)
loop(lines, i, existing_prev, new_tasks) ==
    IF i > Len(lines) THEN [err |-> "", new_tasks |-> new_tasks]
    ELSE IF ~IsCompleted(lines[i])
    THEN loop(lines, i + 1, existing_prev, new_tasks)
    ELSE LET step == loop_body(Slice(lines[i], 3, Len(lines[i]) + 1),
                               existing_prev)
         IN  IF step.act = "raise"
             THEN [err |-> step.err, new_tasks |-> <<>>]
             ELSE IF step.act = "append"
             THEN loop(lines, i + 1, existing_prev,
                       Append(new_tasks, step.task))
             ELSE loop(lines, i + 1, existing_prev, new_tasks)

\* append_tasks without the newline that closes an unterminated last line.
append_tasks_no_newline(text, new_tasks) ==
    IF Len(new_tasks) = 0 THEN text
    ELSE text \o join_nl(new_tasks) \o <<NL>>

\* The end of process_recurring_text: the new tasks appended to the text.
append_tasks(text, new_tasks) ==
    IF Len(new_tasks) = 0 THEN text
    ELSE LET t1 == IF Len(text) > 0 /\ text[Len(text)] # NL
                   THEN Append(text, NL) ELSE text
         IN  t1 \o join_nl(new_tasks) \o <<NL>>

\* process_recurring_text(text): [err |-> "", returned |-> TRUE, text |-> ...]
\* when it returns, [err |-> the exception, returned |-> FALSE] when it raises.
process_recurring_text(text) ==
    LET existing_prev == findall_prev(text, 1)
        res == loop(SplitLines(text, 1, <<>>), 1, existing_prev, <<>>)
    IN  IF res.err # ""
        THEN [err |-> res.err, returned |-> FALSE, text |-> <<>>]
        ELSE [err |-> "", returned |-> TRUE,
              text |-> append_tasks(text, res.new_tasks)]

\* ------------------------------------------------------------------ inputs

MaxTokens == 4      \* tokens on a line of the one-line texts
MaxLines == 3       \* lines of the several-line texts
MaxRuns == 2        \* successive runs of process_recurring_text
MaxAmount == 13     \* the largest interval amount handed to _add_recurrence

RECURSIVE join_sp(_)
join_sp(tokens) ==
    IF Len(tokens) = 0 THEN <<>>
    ELSE IF Len(tokens) = 1 THEN tokens[1]
    ELSE tokens[1] \o <<SP>> \o join_sp(Tail(tokens))

DoneDate == DateSym(2024, 1, 20)
DueDate == DateSym(2024, 1, 15)

TokWord == <<Lit("a")>>
TokRecStrict == <<Lit("rec:"), Digit(1), Lit("w")>>
TokRecFlex == <<Lit("rec:"), Lit("+"), Digit(1), Lit("w")>>
TokDone == <<Lit("done:"), DoneDate>>
TokDue == <<Lit("due:"), DueDate>>
TokBadDone == <<Lit("done:"), Lit("a")>>
MarkX == <<Lit("x"), SP>>

Tokens == {TokWord, TokRecStrict, TokRecFlex, TokDone, TokDue}

\* The sequences of n distinct tokens.
TokenSeqs(n) ==
    {t \in [1..n -> Tokens] : \A i, j \in 1..n : i # j => t[i] # t[j]}

Bodies == UNION {TokenSeqs(n) : n \in 1..MaxTokens}

\* One task line: open, completed, or completed with a title that itself
\* starts with "x ".
OneLineTexts ==
    {p \o join_sp(b) \o e :
        p \in {<<>>, MarkX, MarkX \o MarkX}, b \in Bodies, e \in {<<>>, <<NL>>}}

GoodStrictLine == MarkX \o join_sp(<<TokWord, TokRecStrict, TokDue, TokDone>>)
GoodFlexLine == MarkX \o join_sp(<<TokWord, TokRecFlex, TokDone>>)
MissingDoneLine == MarkX \o join_sp(<<TokWord, TokRecStrict>>)

SmallLines ==
    { <<>>,
      TokWord,
      <<SP, SP>> \o join_sp(<<TokWord, TokRecStrict>>),
      join_sp(<<TokWord, TokRecStrict, TokDue>>),
      MarkX \o join_sp(<<TokWord, TokDone>>),
      MissingDoneLine,
      GoodStrictLine,
      GoodFlexLine,
      MarkX \o join_sp(<<TokWord, TokRecFlex, TokBadDone>>) }

SeveralLineTexts ==
    {join_nl(ls) \o e :
        ls \in UNION {[1..n -> SmallLines] : n \in 1..MaxLines},
        e \in {<<>>, <<NL>>}}

Texts == {<<>>} \cup OneLineTexts \cup SeveralLineTexts

\* ------------------------------------------------------------ state machine

NoResult == [err |-> "unset", val |-> <<>>]
NoList == [done |-> FALSE, lines |-> <<>>]

IdleRec == input = <<>> /\ outs = <<>>
IdleAdd == date_str = <<>> /\ rec = <<>> /\ new_due = NoResult
IdleDue == dtext = <<>> /\ today = <<>> /\ past_due = NoList

\* The text the next run of process_recurring_text is given: the input, then
\* what the run before returned.
CurrentText == IF outs = <<>> THEN input ELSE outs[Len(outs)].text

NoArgs == [command |-> "", file |-> <<>>, output |-> <<>>, path |-> <<>>]
IdleMain ==
    /\ pc = "idle"
    /\ args = NoArgs
    /\ fs = <<>>
    /\ fs0 = <<>>
    /\ main_text = <<>>
    /\ main_files = <<>>
    /\ stdout = <<>>
    /\ reads = <<>>

Init ==
    /\ input \in Texts
    /\ outs = <<>>
    /\ IdleAdd
    /\ IdleDue
    /\ IdleMain

\* One run of process_recurring_text on the current text; a run that raised
\* left no text to run on.
Run ==
    /\ Len(outs) < MaxRuns
    /\ IF outs = <<>> THEN TRUE ELSE outs[Len(outs)].returned
    /\ outs' = Append(outs, process_recurring_text(CurrentText))
    /\ UNCHANGED <<input, addVars, dueVars, mainVars>>

Next == Run

Spec == Init /\ [][Next]_vars

\* --------------------------------------------------------- _add_recurrence

\* The decimal digits of n < 100.
ToDigits(n) ==
    IF n < 10 THEN <<Digit(n)>> ELSE <<Digit(n \div 10), Digit(n % 10)>>

AnchorYears == {2023, 2024}
AnchorDays == {1, 15, 28, 29, 30, 31}

\* The date strings handed to _add_recurrence: every valid date of the
\* anchor years on the anchor days, one impossible date, and None.
AnchorStrings ==
    {<<DateSym(y, m, d)>> :
        <<y, m, d>> \in {t \in AnchorYears \X (1..12) \X AnchorDays :
                           ValidDate(t[1], t[2], t[3])}}
    \cup {<<DateSym(2023, 2, 29)>>, <<>>}

Intervals ==
    {p \o ToDigits(n) \o <<Lit(u)>> :
        p \in {<<>>, <<Lit("+")>>}, n \in 0..MaxAmount, u \in Units}

InitAdd ==
    /\ date_str \in AnchorStrings
    /\ rec \in Intervals
    /\ new_due = NoResult
    /\ IdleRec
    /\ IdleDue
    /\ IdleMain

\* The call _add_recurrence(date_str, rec).
AddRecurrence ==
    /\ new_due = NoResult
    /\ new_due' = _add_recurrence(date_str, rec)
    /\ UNCHANGED <<date_str, rec, recVars, dueVars, mainVars>>

NextAdd == AddRecurrence

SpecAdd == InitAdd /\ [][NextAdd]_vars

\* The last day of a month, from the calendar's table.
LastDayOf(y, m) ==
    IF m = 2 /\ (y % 400 = 0 \/ (y % 4 = 0 /\ y % 100 # 0)) THEN 29
    ELSE <<31, 28, 31, 30, 31, 30, 31, 31, 30, 31, 30, 31>>[m]

Min(a, b) == IF a < b THEN a ELSE b

IsDate(s, y, m, d) == s = <<DateSym(y, m, d)>>

\* The call was _add_recurrence(<y-m-d>, <n><u>) (flexible or strict) and
\* has returned.
Added5(y, m, d, n, u) ==
    /\ new_due # NoResult
    /\ date_str = <<DateSym(y, m, d)>>
    /\ lstrip_plus(rec) = ToDigits(n) \o <<Lit(u)>>

\* C5: for a valid anchor date D and an interval of n months the result is
\* year D.year + floor((D.month-1+n)/12), month (D.month-1+n) mod 12 + 1,
\* day min(D.day, last day of that month); for n years it is year D.year+n,
\* the same month, day min(D.day, last day of D.month in that year); the
\* result of every unit is a valid calendar date; and 2024-01-31 +1m =
\* 2024-02-29, 2024-02-29 +1y = 2025-02-28, 2024-02-29 +4y = 2028-02-29,
\* 2024-06-15 +12m = 2025-06-15.
C5_CalendarArithmetic ==
    (new_due # NoResult /\ strptime(date_str).ok) =>
        LET D == date_str[1]
            rv == lstrip_plus(rec)
            n == int(SubSeq(rv, 1, Len(rv) - 1))
            u == rv[Len(rv)].k
            R == new_due.val
            ty == D.a + ((D.b - 1 + n) \div 12)
            tm == ((D.b - 1 + n) % 12) + 1
        IN  /\ new_due.err = ""
            /\ Len(R) = 1
            /\ R[1].k = "date"
            /\ R[1].b \in 1..12
            /\ R[1].c \in 1..LastDayOf(R[1].a, R[1].b)
            /\ u = "m" => IsDate(R, ty, tm, Min(D.c, LastDayOf(ty, tm)))
            /\ u = "y" => IsDate(R, D.a + n, D.b,
                                 Min(D.c, LastDayOf(D.a + n, D.b)))
            /\ Added5(2024, 1, 31, 1, "m") => IsDate(R, 2024, 2, 29)
            /\ Added5(2024, 2, 29, 1, "y") => IsDate(R, 2025, 2, 28)
            /\ Added5(2024, 2, 29, 4, "y") => IsDate(R, 2028, 2, 29)
            /\ Added5(2024, 6, 15, 12, "m") => IsDate(R, 2025, 6, 15)

\* C5 witness: 2024-01-31 plus one month was clamped to 2024-02-29.
C5_Witness ==
    /\ Added5(2024, 1, 31, 1, "m")
    /\ new_due.val = <<DateSym(2024, 2, 29)>>

\* --------------------------------------------------------- find_past_due

\* a <= b for two strings, as Python compares them: byte by byte.
RECURSIVE LexLE(_, _)
LexLE(x, y) ==
    IF Len(x) = 0 THEN TRUE
    ELSE IF Len(y) = 0 THEN FALSE
    ELSE IF x[1] # y[1] THEN x[1] < y[1]
    ELSE LexLE(Tail(x), Tail(y))

StrLE(x, y) == LexLE(encode(x), encode(y))

\* A match of ^(?!x )(\S.*)$ on one line of the text.
IsOpenTask(ln) ==
    /\ Len(ln) >= 1
    /\ NonSpace(ln[1])
    /\ ~(Len(ln) >= 2 /\ ln[1].k = "x" /\ ln[2] = SP)

\* re.search(r"due:(\d{4}-\d{2}-\d{2})", line), from position i on: group 1
\* of the first match, or <<>> when there is none.
RECURSIVE search_due(_, _)
search_due(line, i) ==
    IF i >= Len(line) THEN <<>>
    ELSE IF line[i].k = "due:" /\ line[i + 1].k = "date"
    THEN <<line[i + 1]>>
    ELSE search_due(line, i + 1)

\* is_past_due with < in place of <=.
is_past_due_strict(line, now) ==
    LET due_match == search_due(line, 1)
    IN  Len(due_match) > 0 /\ due_match # now /\ StrLE(due_match, now)

\* The body of the loop of find_past_due: whether the line is appended.
is_past_due(line, now) ==
    LET due_match == search_due(line, 1)
    IN  Len(due_match) > 0 /\ StrLE(due_match, now)

\* find_past_due(text, today): the past-due lines, in source order.
find_past_due(txt, now) ==
    SelectSeq(SplitLines(txt, 1, <<>>),
              LAMBDA ln : IsOpenTask(ln) /\ is_past_due(ln, now))

MaxDueLines == 2    \* lines of the texts handed to find_past_due

RefDate == DateSym(2025, 12, 9)

\* Due dates around the reference date: the day before, the day itself, the
\* day after, an earlier month with a later day, the years before and after.
DueDates ==
    { DateSym(2025, 12, 8), RefDate, DateSym(2025, 12, 10),
      DateSym(2025, 11, 30), DateSym(2024, 12, 31), DateSym(2026, 1, 1) }

GoodDueTokens == {<<Lit("due:"), d>> : d \in DueDates}

\* due values that are no date: a word, a date with one more digit, an
\* impossible month and day, no value, and due: as the tail of a longer key.
BadDueTokens ==
    { <<Lit("due:"), Lit("a")>>,
      <<Lit("due:"), DateSym(2025, 12, 1), Digit(1)>>,
      <<Lit("due:"), DateSym(2025, 2, 30)>>,
      <<Lit("due:"), DateSym(2025, 13, 45)>>,
      <<Lit("due:")>>,
      <<Lit("a"), Lit("due:"), DateSym(2025, 12, 1)>> }

DueBodies ==
    {TokWord, join_sp(<<<<Lit("due:"), RefDate>>, TokWord>>)}
    \cup {join_sp(<<TokWord, t>>) : t \in GoodDueTokens \cup BadDueTokens}

PastToken == <<Lit("due:"), DateSym(2024, 12, 31)>>
FutureToken == <<Lit("due:"), DateSym(2026, 1, 1)>>

\* Open tasks, completed tasks, indented description lines, a line whose
\* first word only starts with x, and the blank line.
DueLines ==
    DueBodies
    \cup {p \o join_sp(<<TokWord, t>>) :
            p \in {MarkX, <<SP, SP>>}, t \in {PastToken, FutureToken}}
    \cup {<<Lit("x")>> \o join_sp(<<TokWord, PastToken>>), <<>>}

DueTexts ==
    {join_nl(ls) \o e :
        ls \in UNION {[1..n -> DueLines] : n \in 1..MaxDueLines},
        e \in {<<>>, <<NL>>}}

InitDue ==
    /\ dtext \in DueTexts
    /\ today \in {<<RefDate>>, <<DateSym(2026, 1, 1)>>}
    /\ past_due = NoList
    /\ IdleRec
    /\ IdleAdd
    /\ IdleMain

\* The call find_past_due(text, today).
FindPastDue ==
    /\ ~past_due.done
    /\ past_due' = [done |-> TRUE, lines |-> find_past_due(dtext, today)]
    /\ UNCHANGED <<dtext, today, recVars, addVars, mainVars>>

NextDue == FindPastDue

SpecDue == InitDue /\ [][NextDue]_vars

\* -------------------------------------------------------------------- main

\* A file name is a sequence of characters, a path a sequence of names.
IsHidden(name) == name[1] = "."

NameTodo == <<"t">>
NameOut == <<"o">>
NameDir == <<"d">>
NameV == <<"v">>
NameCfg == <<"c">>
NameDotFile == <<".", "h">>
NameDotGit == <<".", "g">>
NameDotCache == <<".", "c">>

\* The files a directory tree may hold, in the order os.walk lists them from
\* the top directory d: d/t, d/.h, d/.g/c, d/v/t, d/v/.c/t.
TreeFiles ==
    << <<NameDir, NameTodo>>,
       <<NameDir, NameDotFile>>,
       <<NameDir, NameDotGit, NameCfg>>,
       <<NameDir, NameV, NameTodo>>,
       <<NameDir, NameV, NameDotCache, NameTodo>> >>

OverdueText == join_sp(<<TokWord, PastToken>>) \o <<NL>>
NotDueText == join_sp(<<TokWord, FutureToken>>) \o <<NL>>

\* The directory trees: every choice of which files exist, and whether the
\* task each one holds is overdue.
Trees ==
    UNION {[S -> {OverdueText, NotDueText}] : S \in SUBSET Range(TreeFiles)}

DueArgs ==
    {[command |-> "due", file |-> <<>>, output |-> <<>>, path |-> q] :
        q \in {<<NameDir>>, <<NameDir, NameV>>, <<NameDir, NameDotFile>>,
               <<NameDir, NameOut>>}}

\* The todo files of the do-rec command: t holds a text or is missing, o is
\* missing or holds an older text.
TodoTexts ==
    { <<>>, TokWord \o <<NL>>, GoodStrictLine \o <<NL>>, GoodFlexLine,
      MissingDoneLine \o <<NL>>,
      join_nl(<<TokWord, <<>>, GoodStrictLine>>) \o <<NL>> }

TodoDirs ==
    UNION {[S -> TodoTexts] : S \in SUBSET {<<NameTodo>>, <<NameOut>>}}

DoRecArgs ==
    {[command |-> "do-rec", file |-> f, output |-> o, path |-> <<>>] :
        f \in {<<NameTodo>>}, o \in {<<>>, <<NameTodo>>, <<NameOut>>}}

InitMain ==
    /\ pc = "start"
    /\ \E a \in DueArgs \cup DoRecArgs :
           /\ args = a
           /\ fs \in (IF a.command = "due" THEN Trees ELSE TodoDirs)
    /\ fs0 = fs
    /\ main_text = <<>>
    /\ main_files = <<>>
    /\ stdout = <<>>
    /\ reads = <<>>
    /\ dtext = <<>>
    /\ today = <<RefDate>>
    /\ past_due = NoList
    /\ IdleRec
    /\ IdleAdd

\* open(path, "w"): the file exists and is empty.
OpenForWriting(f, path) ==
    [q \in DOMAIN f \cup {path} |-> IF q = path THEN <<>> ELSE f[q]]

\* parser.parse_args(): argparse.FileType("w") opens the -o file here.
ParseArgs ==
    /\ pc = "start"
    /\ fs' = IF args.command = "do-rec" /\ args.output # <<>>
             THEN OpenForWriting(fs, args.output) ELSE fs
    /\ pc' = args.command
    /\ UNCHANGED <<args, fs0, main_text, main_files, stdout, reads,
                   recVars, addVars, dueVars>>

\* do-rec: with open(args.file) as f: text = f.read()
DoRecRead ==
    /\ pc = "do-rec"
    /\ IF args.file \in DOMAIN fs
       THEN /\ main_text' = fs[args.file]
            /\ reads' = Append(reads, args.file)
            /\ pc' = "process"
       ELSE /\ pc' = "raised"
            /\ UNCHANGED <<main_text, reads>>
    /\ UNCHANGED <<args, fs, fs0, main_files, stdout,
                   recVars, addVars, dueVars>>

\* do-rec: text = process_recurring_text(text)
DoRecProcess ==
    /\ pc = "process"
    /\ LET r == process_recurring_text(main_text)
       IN  IF r.returned
           THEN main_text' = r.text /\ pc' = "write"
           ELSE pc' = "raised" /\ UNCHANGED main_text
    /\ UNCHANGED <<args, fs, fs0, main_files, stdout, reads,
                   recVars, addVars, dueVars>>

\* do-rec: output.write(text), to the -o file or to sys.stdout.
DoRecWrite ==
    /\ pc = "write"
    /\ IF args.output = <<>>
       THEN stdout' = stdout \o main_text /\ UNCHANGED fs
       ELSE fs' = [fs EXCEPT ![args.output] = main_text] /\ UNCHANGED stdout
    /\ pc' = "returned"
    /\ UNCHANGED <<args, fs0, main_text, main_files, reads,
                   recVars, addVars, dueVars>>

\* The files os.walk(path) yields: every file below the directory, whatever
\* the names of the file and of the directories above it.
walk(f, path) ==
    SelectSeq(TreeFiles,
              LAMBDA q : q \in DOMAIN f /\ Len(q) > Len(path)
                         /\ SubSeq(q, 1, Len(path)) = path)

\* due: the list files, [path] for a file and the walk for a directory.
DueCollect ==
    /\ pc = "due"
    /\ main_files' = IF args.path \in DOMAIN fs THEN <<args.path>>
                     ELSE walk(fs, args.path)
    /\ pc' = "scan"
    /\ UNCHANGED <<args, fs, fs0, main_text, stdout, reads,
                   recVars, addVars, dueVars>>

\* "\n".join(lines) + "\n" for every line: what print() writes.
RECURSIVE printed(_)
printed(lines) ==
    IF Len(lines) = 0 THEN <<>>
    ELSE lines[1] \o <<NL>> \o printed(Tail(lines))

\* due: one turn of the loop over files: read the file, print its past-due
\* lines.
DueScan ==
    /\ pc = "scan"
    /\ main_files # <<>>
    /\ main_text' = fs[Head(main_files)]
    /\ reads' = Append(reads, Head(main_files))
    /\ stdout' = stdout \o printed(find_past_due(fs[Head(main_files)], today))
    /\ main_files' = Tail(main_files)
    /\ UNCHANGED <<pc, args, fs, fs0, recVars, addVars, dueVars>>

\* due: the loop is over, main returns 0.
DueReturn ==
    /\ pc = "scan"
    /\ main_files = <<>>
    /\ pc' = "returned"
    /\ UNCHANGED <<args, fs, fs0, main_text, main_files, stdout, reads,
                   recVars, addVars, dueVars>>

NextMain ==
    \/ ParseArgs
    \/ DoRecRead
    \/ DoRecProcess
    \/ DoRecWrite
    \/ DueCollect
    \/ DueScan
    \/ DueReturn

SpecMain == InitMain /\ [][NextMain]_vars

\* ------------------------------------------------ edits between two runs

MaxDescriptions == 2    \* description lines in the text
MaxChain == 1           \* successors marked completed in the text

ChainDate == DateSym(2024, 2, 1)

\* An indented description line: two leading spaces, then free text.
DescLines ==
    { <<SP, SP>> \o TokWord,
      <<SP, SP>> \o join_sp(<<<<Lit("b")>>, TokRecStrict>>) }

IsIndented(ln) == Len(ln) >= 2 /\ ln[1] = SP /\ ln[2] = SP

\* The task line a description line standing after line i belongs to: the
\* nearest line above that is not indented, 0 when that line is blank.
RECURSIVE Owner(_, _)
Owner(ls, i) ==
    IF i = 0 THEN 0
    ELSE IF IsIndented(ls[i]) THEN Owner(ls, i - 1)
    ELSE IF ls[i] = <<>> THEN 0
    ELSE i

\* Line i is a completed task line that carries a rec: field.
IsCompletedRecurring(ls, i) ==
    /\ i \in 1..Len(ls)
    /\ IsCompleted(ls[i])
    /\ Len(search_rec(Slice(ls[i], 3, Len(ls[i]) + 1), 1)) > 0

\* Line i is a description line of a completed recurring task.
IsDescription(ls, i) ==
    /\ IsIndented(ls[i])
    /\ IsCompletedRecurring(ls, Owner(ls, i - 1))

\* Line i is a task a run generated and nobody completed yet.
IsOpenSuccessor(ls, i) ==
    /\ Len(ls[i]) > 0
    /\ NonSpace(ls[i][1])
    /\ ~IsCompleted(ls[i])
    /\ SearchKey(ls[i], "_prev:", 1) # 0

IsCompletedSuccessor(ls, i) ==
    IsCompleted(ls[i]) /\ SearchKey(ls[i], "_prev:", 1) # 0

CountDescriptions(ls) ==
    Cardinality({i \in 1..Len(ls) : IsDescription(ls, i)})

CountCompletedSuccessors(ls) ==
    Cardinality({i \in 1..Len(ls) : IsCompletedSuccessor(ls, i)})

EditLines ==
    { GoodStrictLine,
      GoodFlexLine,
      join_sp(<<TokWord, TokRecStrict, TokDue>>) }

\* A task line with at most one description line.
EditRecords ==
    {<<l>> : l \in EditLines} \cup
    {<<l, d>> : l \in EditLines, d \in DescLines}

EditTexts ==
    {join_nl(r) \o e : r \in EditRecords, e \in {<<>>, <<NL>>}} \cup
    {join_nl(r \o <<l>>) \o <<NL>> : r \in EditRecords, l \in EditLines}

InitEdit ==
    /\ input \in EditTexts
    /\ outs = <<>>
    /\ IdleAdd
    /\ IdleDue
    /\ IdleMain

\* The file is edited by hand after a run that returned; the edited text is
\* what the next runs are given.
Edited(ls) ==
    /\ input' = join_nl(ls)
    /\ outs' = <<>>
    /\ UNCHANGED <<addVars, dueVars, mainVars>>

CanEdit == outs # <<>> /\ outs[Len(outs)].returned

\* A description line is added under a completed recurring task.
AddDescription ==
    /\ CanEdit
    /\ \E ls \in {SplitLines(CurrentText, 1, <<>>)} :
           /\ CountDescriptions(ls) < MaxDescriptions
           /\ \E i \in 1..Len(ls), d \in DescLines :
                  /\ IsCompletedRecurring(ls, i) \/ IsDescription(ls, i)
                  /\ Edited(SubSeq(ls, 1, i) \o <<d>> \o
                            SubSeq(ls, i + 1, Len(ls)))

\* A description line of a completed recurring task is changed.
ChangeDescription ==
    /\ CanEdit
    /\ \E ls \in {SplitLines(CurrentText, 1, <<>>)} :
           \E i \in 1..Len(ls), d \in DescLines :
               /\ IsDescription(ls, i)
               /\ d # ls[i]
               /\ Edited([ls EXCEPT ![i] = d])

\* A description line of a completed recurring task is removed.
RemoveDescription ==
    /\ CanEdit
    /\ \E ls \in {SplitLines(CurrentText, 1, <<>>)} :
           \E i \in 1..Len(ls) :
               /\ IsDescription(ls, i)
               /\ Edited(SubSeq(ls, 1, i - 1) \o SubSeq(ls, i + 1, Len(ls)))

\* A generated successor is marked completed: "x " before it, a done: date
\* after it.
MarkDone ==
    /\ CanEdit
    /\ \E ls \in {SplitLines(CurrentText, 1, <<>>)} :
           /\ CountCompletedSuccessors(ls) < MaxChain
           /\ \E i \in 1..Len(ls) :
                  /\ IsOpenSuccessor(ls, i)
                  /\ Edited([ls EXCEPT ![i] =
                                MarkX \o ls[i] \o
                                    <<SP, Lit("done:"), ChainDate>>])

NextEdit ==
    \/ Run
    \/ AddDescription
    \/ ChangeDescription
    \/ RemoveDescription

SpecEdit == InitEdit /\ [][NextEdit]_vars

\* Runs with generated successors marked completed in between.
NextChain ==
    \/ Run
    \/ MarkDone

SpecChain == InitEdit /\ [][NextChain]_vars

\* -------------------------------------------------------------- properties

\* The text handed to run k.
RunIn(k) == IF k = 1 THEN input ELSE outs[k - 1].text

\* Group 1 of every match of ^x (.+)$ in the text, in source order.
RECURSIVE CompletedFrom(_, _)
CompletedFrom(lines, i) ==
    IF i > Len(lines) THEN <<>>
    ELSE IF IsCompleted(lines[i])
    THEN <<Slice(lines[i], 3, Len(lines[i]) + 1)>> \o CompletedFrom(lines, i + 1)
    ELSE CompletedFrom(lines, i + 1)

Completed(text) == CompletedFrom(SplitLines(text, 1, <<>>), 1)

\* The completed lines of the text that carry a rec: field, in source order.
Recurring(text) ==
    SelectSeq(Completed(text), LAMBDA ln : Len(search_rec(ln, 1)) > 0)

\* The line carries the token _prev:<h>.
CarriesPrev(ln, h) ==
    \E i \in 1..Len(ln) :
        ln[i].k = "_prev:" /\ i < Len(ln) /\ Group1(ln, i) = h

\* How many lines of the text carry _prev:<h>.
CountPrev(text, h) ==
    LET ls == SplitLines(text, 1, <<>>)
    IN  Cardinality({i \in 1..Len(ls) : CarriesPrev(ls[i], h)})


\* C1: when the first run succeeds, the second run on its output succeeds
\* too, and its result holds exactly one line carrying _prev:<fingerprint of
\* T> for every completed line T of the input that carries a rec: field.
C1_Idempotent ==
    (Len(outs) >= 2 /\ outs[1].returned) =>
        /\ outs[2].returned
        /\ \A T \in Range(Recurring(input)) :
               CountPrev(outs[2].text, task_hash(T)) = 1


\* The value of the first key:<value> token of the line, <<>> without one.
ValueOf(ln, key) ==
    LET at == SearchKey(ln, key, 1)
    IN  IF at = 0 THEN <<>> ELSE Group1(ln, at)

HasField(ln, key) == SearchKey(ln, key, 1) # 0

\* A completed recurring line whose dates can be read: a done: date, and a
\* due: date or no due: field.
WellFormed(ln) ==
    /\ strptime(ValueOf(ln, "done:")).ok
    /\ HasField(ln, "due:") => strptime(ValueOf(ln, "due:")).ok

Sources(text) ==
    SelectSeq(Recurring(text),
              LAMBDA ln : task_hash(ln) \notin findall_prev(text, 1))

\* What run k put after its input.
Added(k) == Slice(outs[k].text, Len(RunIn(k)) + 1, Len(outs[k].text) + 1)

\* The lines run k appended (the successors), in order.
Appended(k) ==
    SelectSeq(SplitLines(Added(k), 1, <<>>), LAMBDA ln : Len(ln) > 0)

IsPrefix(p, t) == Len(p) <= Len(t) /\ Slice(t, 1, Len(p) + 1) = p

\* C3: the output of a run that returns starts with its input; without a
\* successor it is the input; with successors it is the input, one newline
\* exactly when the non-empty input did not end with one, then one line per
\* successor in source order, each ended by a newline.
C3_TextPreserved ==
    \A k \in 1..Len(outs) :
        outs[k].returned =>
            LET in == RunIn(k)
                out == outs[k].text
                src == Sources(in)
                sep == Len(in) > 0 /\ in[Len(in)] # NL
                start == Len(in) + (IF sep THEN 1 ELSE 0)
            IN  /\ IsPrefix(in, out)
                /\ Len(src) = 0 => out = in
                /\ Len(src) > 0 =>
                     /\ Len(out) > start + 1
                     /\ sep => out[Len(in) + 1] = NL
                     /\ out[Len(out)] = NL
                     /\ LET ls == SplitLines(Slice(out, start + 1, Len(out)),
                                             1, <<>>)
                        IN  /\ Len(ls) = Len(src)
                            /\ \A i \in 1..Len(ls) :
                                   /\ Len(ls[i]) > 0
                                   /\ CarriesPrev(ls[i], task_hash(src[i]))

\* C3 witness: an input that does not end with a newline, and a run that
\* appended two successors to it.
C3_Witness ==
    /\ Len(outs) = 1
    /\ outs[1].returned
    /\ Len(input) > 0
    /\ input[Len(input)] # NL
    /\ Len(Appended(1)) = 2

\* The values of the due: tokens of a line.
DueValues(ln) ==
    {Group1(ln, i) : i \in {j \in 1..(Len(ln) - 1) :
                               ln[j].k = "due:" /\ NonSpace(ln[j + 1])}}

HasDueKey(ln) == \E i \in 1..Len(ln) : ln[i].k = "due:"

IsFlexible(r) == r[1].k = "+"

\* The due: values the successor of completed line T is to carry: the
\* anchor date plus the interval, or none.
AnchoredDue(T) ==
    LET r == search_rec(T, 1)
    IN  IF IsFlexible(r)
        THEN {_add_recurrence(ValueOf(T, "done:"), r).val}
        ELSE IF HasField(T, "due:")
        THEN {_add_recurrence(ValueOf(T, "due:"), r).val}
        ELSE {}

\* The last line of a text that ends with a newline.
LastLine(text) ==
    LET ls == SplitLines(text, 1, <<>>)
    IN  IF Len(ls) < 2 THEN <<>> ELSE ls[Len(ls) - 1]

\* The tokens b hold exactly one rec: token.
OneRec(b) == Cardinality({i \in 1..Len(b) : b[i][1].k = "rec:"}) = 1

\* C4: the successor of a completed recurring line carries done: plus the
\* interval as its due date when the interval is flexible, due: plus the
\* interval when it is strict, and no due: at all when it is strict and the
\* line has no due:; for a line with one rec: token the due date is the same
\* for every order of the tokens of the line.
C4_AnchorSelection ==
    \A k \in 1..Len(outs) :
        outs[k].returned =>
            LET src == Sources(RunIn(k))
                app == Appended(k)
            IN  /\ Len(app) = Len(src)
                /\ \A i \in 1..Len(src) :
                       /\ DueValues(app[i]) = AnchoredDue(src[i])
                       /\ AnchoredDue(src[i]) = {} => ~HasDueKey(app[i])
                /\ (k = 1 /\ Len(src) = 1 /\ Len(Completed(input)) = 1) =>
                       \A b \in Bodies :
                           (/\ OneRec(b)
                            /\ input \in {MarkX \o join_sp(b),
                                          MarkX \o join_sp(b) \o <<NL>>}) =>
                               \A b2 \in Bodies :
                                   Range(b2) = Range(b) =>
                                       DueValues(app[1]) =
                                           DueValues(LastLine(
                                               process_recurring_text(
                                                   MarkX \o join_sp(b2)).text))

\* C4 witness (flexible): done:2024-01-20 due:2024-01-15 rec:+1w gave a
\* successor due 2024-01-27.
C4_Witness ==
    /\ Len(outs) = 1
    /\ outs[1].returned
    /\ input = MarkX \o join_sp(<<TokWord, TokDone, TokDue, TokRecFlex>>)
    /\ DueValues(Appended(1)[1]) = {<<DateSym(2024, 1, 27)>>}

\* C8: no line appended by a run holds two consecutive spaces.
C8_NoDoubleSpace ==
    \A k \in 1..Len(outs) :
        outs[k].returned =>
            \A ln \in Range(Appended(k)) :
                \A i \in 1..(Len(ln) - 1) : ~(ln[i] = SP /\ ln[i + 1] = SP)

\* The positions of the line where a token due:<valid YYYY-MM-DD> stands:
\* due: starts the token, a valid calendar date is its whole value.
DueTokensAt(ln) ==
    {i \in 1..(Len(ln) - 1) :
        /\ ln[i].k = "due:"
        /\ i = 1 \/ ln[i - 1] = SP
        /\ ln[i + 1].k = "date"
        /\ ValidDate(ln[i + 1].a, ln[i + 1].b, ln[i + 1].c)
        /\ i + 1 = Len(ln) \/ ln[i + 2] = SP}

WellFormedDue(ln) == DueTokensAt(ln) # {}

DateNumber(d) == d.a * 10000 + d.b * 100 + d.c

\* The line's due date is on or before the reference date.
DueOnOrBefore(ln, ref) ==
    \E i \in DueTokensAt(ln) : DateNumber(ln[i + 1]) <= DateNumber(ref)

TopLevel(ln) == Len(ln) > 0 /\ NonSpace(ln[1])
StartsCompleted(ln) == Len(ln) >= 2 /\ ln[1].k = "x" /\ ln[2] = SP

\* C6: among the lines that carry a well-formed due:YYYY-MM-DD, the result
\* of find_past_due holds, in source order, exactly the top-level lines that
\* are not completed and whose due date is on or before the reference date;
\* no completed line and no indented line is ever returned.
C6_PastDueMembership ==
    past_due.done =>
        /\ SelectSeq(past_due.lines, WellFormedDue) =
               SelectSeq(SplitLines(dtext, 1, <<>>),
                         LAMBDA ln : /\ WellFormedDue(ln)
                                     /\ TopLevel(ln)
                                     /\ ~StartsCompleted(ln)
                                     /\ DueOnOrBefore(ln, today[1]))
        /\ \A ln \in Range(past_due.lines) :
               TopLevel(ln) /\ ~StartsCompleted(ln)

\* C6 witness: of a task due the day after the reference date and a task due
\* on the reference date, the second alone was returned.
C6_Witness ==
    LET after == join_sp(<<TokWord, <<Lit("due:"), DateSym(2025, 12, 10)>>>>)
        on == join_sp(<<TokWord, <<Lit("due:"), RefDate>>>>)
    IN  /\ dtext = join_nl(<<after, on>>) \o <<NL>>
        /\ today = <<RefDate>>
        /\ past_due = [done |-> TRUE, lines |-> <<on>>]

\* C7: every line find_past_due returns carries a due: token whose value is
\* a valid YYYY-MM-DD date.
C7_OnlyValidDue ==
    past_due.done => \A ln \in Range(past_due.lines) : WellFormedDue(ln)

\* C9: when do-rec has returned and -o named the input file, an input file
\* that existed still starts with its original content, and holds what
\* process_recurring_text returns for that content.
C9_SameFileKeepsData ==
    (/\ pc = "returned"
     /\ args.command = "do-rec"
     /\ args.output = args.file
     /\ args.file \in DOMAIN fs0) =>
        /\ IsPrefix(fs0[args.file], fs[args.file])
        /\ fs[args.file] = process_recurring_text(fs0[args.file]).text

\* C10: when the due command is given a directory, it opens no file whose
\* name, or the name of a directory between it and the given directory,
\* begins with ".".
C10_SkipsHidden ==
    (args.command = "due" /\ args.path \notin DOMAIN fs0) =>
        \A q \in Range(reads) :
            \A i \in (Len(args.path) + 1)..Len(q) : ~IsHidden(q[i])

\* C12: no line appended by a run starts with the completion marker "x ".
C12_SuccessorNotCompleted ==
    \A k \in 1..Len(outs) :
        outs[k].returned =>
            \A ln \in Range(Appended(k)) : ~StartsCompleted(ln)

\* C11: a run appends one line for each completed recurring line of its
\* input whose fingerprint, taken from the line alone, no _prev: of the input
\* names, and nothing else: a completed task that has its successor gets no
\* second one, whatever was added to, changed in or removed from its
\* description lines since the successor was generated.
C11_FingerprintStability ==
    \A k \in 1..Len(outs) :
        outs[k].returned =>
            LET in == RunIn(k)
                rl == Recurring(in)
            IN  /\ Len(Appended(k)) =
                       Cardinality({i \in 1..Len(rl) :
                                       CountPrev(in, task_hash(rl[i])) = 0})
                /\ (\A i \in 1..Len(rl) :
                        CountPrev(in, task_hash(rl[i])) > 0)
                   => outs[k].text = in

\* C11 witness: the completed task has its successor, two description lines
\* stand under it where the first run saw one at most, and the run on the
\* edited text returned it unchanged.
C11_Witness ==
    /\ Len(outs) = 1
    /\ outs[1].returned
    /\ outs[1].text = input
    /\ LET ls == SplitLines(input, 1, <<>>)
       IN  /\ Len(ls) >= 4
           /\ ls[1] = GoodStrictLine
           /\ IsIndented(ls[2])
           /\ IsIndented(ls[3])
           /\ ls[2] # ls[3]
           /\ CountPrev(input,
                        task_hash(Slice(ls[1], 3, Len(ls[1]) + 1))) = 1

\* The values of the _prev: tokens of the line, in order.
RECURSIVE PrevValues(_, _)
PrevValues(ln, i) ==
    LET at == SearchKey(ln, "_prev:", i)
    IN  IF at = 0 THEN <<>>
        ELSE <<Group1(ln, at)>> \o PrevValues(ln, RunEnd(ln, at + 1))

\* C13: every line a run appends carries exactly one _prev: token, and its
\* value is the fingerprint of the completed line it was generated from,
\* also when that completed line is itself a successor marked completed.
C13_OnePrevPerSuccessor ==
    \A k \in 1..Len(outs) :
        outs[k].returned =>
            LET src == Sources(RunIn(k))
                app == Appended(k)
            IN  /\ Len(app) = Len(src)
                /\ \A i \in 1..Len(src) :
                       PrevValues(app[i], 1) = <<task_hash(src[i])>>

====
